---- MODULE Spec2Model ----
(***************************************************************************)
(* The expense resource of app/expense.py: five JWT-protected handlers     *)
(* (create, list, get, partial update, delete) over one table of expense   *)
(* rows.  Spec runs the handlers one request at a time, each handler as    *)
(* one atomic step.  SpecPatch runs two PATCH requests on one row with     *)
(* their read, assign and commit steps interleaved.                        *)
(***************************************************************************)
EXTENDS Integers, FiniteSets, Sequences, TLC

\* ---------------------------------------------------------------- bounds
NumUsers == 2
MaxId == 2

Users == 1..NumUsers
Ids == 1..MaxId

\* ------------------------------------------------------- request payloads
Fields == {"title", "amount"}
Titles == {"Expense", "Updated Expense"}
Amounts == {100, 250}
\* values the schema rejects for the field they are sent in
InvalidTitles == {"<not text>"}
InvalidAmounts == {-1}

JsonOf(D, t, a) == [f \in D |-> IF f = "title" THEN t ELSE a]

\* request.json: any subset of the two fields, each valid or malformed
Payloads ==
    { JsonOf(D, t, a) : D \in SUBSET Fields,
                        t \in Titles \cup InvalidTitles,
                        a \in Amounts \cup InvalidAmounts }

NoJson == JsonOf({}, "Expense", 100)

\* ------------------------------------------------------------- the schema
FieldValid(f, v) == IF f = "title" THEN v \in Titles ELSE v \in Amounts

\* expense_schema.load(json, partial): the fields that fail validation.
\* A present field must be well-formed; a missing field is an error
\* unless the load is partial.
LoadErrors(json, partial) ==
    { f \in Fields : IF f \in DOMAIN json THEN ~FieldValid(f, json[f])
                                          ELSE ~partial }

\* expense_schema.dump(expense): id, title and amount; the owner is not
\* part of the output.
Dump(e) == [kind |-> "record", id |-> e.id, title |-> e.title, amount |-> e.amount]

\* ------------------------------------------------------------------ state
VARIABLES
    expenses,   \* the expense table: a set of rows [id, title, amount, user_id]
    req,        \* the request just handled, until its response is sent
    resp,       \* the response to it
    deleted,    \* ids removed by a delete and not assigned again since
    sess,       \* SpecPatch: per request, its session and position
    commits     \* SpecPatch: the requests that committed, in commit order

vars == <<expenses, req, resp, deleted, sess, commits>>

\* ------------------------------------------------------------- responses
ErrorBody(msg) == [kind |-> "error", error |-> msg]
MessagesBody(fs) == [kind |-> "messages", fields |-> fs]
EmptyBody == [kind |-> "empty"]
AbortBody == [kind |-> "abort"]
ListBody(rows) == [kind |-> "list", items |-> {Dump(e) : e \in rows}]

Response(status, body) == [status |-> status, body |-> body]
Request(op, user, id, json) == [op |-> op, user |-> user, id |-> id, json |-> json]

NoAccess == "no access to this expense"

\* no request is being answered
NoRequest == Request("none", 1, 0, NoJson)
NoResponse == Response(0, EmptyBody)

\* ------------------------------------------------------------- the store
\* db.get_or_404(Expense, id): the rows with that primary key
Rows(id) == {e \in expenses : e.id = id}
Row(id) == CHOOSE e \in expenses : e.id = id

\* current_user.expenses
UserExpenses(u) == {e \in expenses : e.user_id = u}

\* primary keys the store may assign to a new row
FreeIds == Ids \ {e.id : e \in expenses}

\* data.get(f, current)
GetOr(data, f, current) == IF f \in DOMAIN data THEN data[f] ELSE current

\* PUT semantics: a field missing from the payload is reset
AssignedOverwrite(e, data) ==
    [e EXCEPT !.title = GetOr(data, "title", "Expense"),
              !.amount = GetOr(data, "amount", 100)]

\* lines 201-202: the row after the assignments
Assigned(e, data) ==
    [e EXCEPT !.title = GetOr(data, "title", e.title),
              !.amount = GetOr(data, "amount", e.amount)]

\* db.session.commit() with the row e modified in the session: the table
\* holds e in place of the row with its primary key
Committed(e) == {x \in expenses : x.id # e.id} \cup {e}

\* db.session.commit() when the flush updates only the columns whose value
\* in the session differs from the value the session loaded
CommittedChanged(e, loaded) ==
    {x \in expenses : x.id # e.id} \cup
    {[x EXCEPT !.title = IF e.title # loaded.title THEN e.title ELSE x.title,
               !.amount = IF e.amount # loaded.amount THEN e.amount ELSE x.amount]
        : x \in Rows(e.id)}

\* The tables a commit of e may leave.  How much of the row the flush
\* writes back is the store's choice, so both outcomes are kept.
Flushes(e, loaded) == {Committed(e), CommittedChanged(e, loaded)}

\* a handler runs from the arrival of request r to its return value s
Served(r, s) ==
    /\ req' = r
    /\ resp' = s
    /\ UNCHANGED <<sess, commits>>

\* ------------------------------------------------------------ the handlers
\* the new row is never added to the session
create_expense_noadd(user, json) ==
    IF LoadErrors(json, FALSE) # {}
    THEN /\ Served(Request("create", user, 0, json),
                   Response(422, MessagesBody(LoadErrors(json, FALSE))))
         /\ UNCHANGED <<expenses, deleted>>
    ELSE \E id \in FreeIds :
           LET new_expense == [id |-> id, title |-> json["title"],
                               amount |-> json["amount"], user_id |-> user]
           IN /\ UNCHANGED <<expenses, deleted>>
              /\ Served(Request("create", user, 0, json),
                        Response(201, Dump(new_expense)))

create_expense(user, json) ==
    IF LoadErrors(json, FALSE) # {}
    THEN /\ Served(Request("create", user, 0, json),
                   Response(422, MessagesBody(LoadErrors(json, FALSE))))
         /\ UNCHANGED <<expenses, deleted>>
    ELSE \E id \in FreeIds :
           LET new_expense == [id |-> id, title |-> json["title"],
                               amount |-> json["amount"], user_id |-> user]
           IN /\ expenses' = expenses \cup {new_expense}
              /\ deleted' = deleted \ {id}
              /\ Served(Request("create", user, 0, json),
                        Response(201, Dump(new_expense)))

\* Expense.query.all() in place of current_user.expenses
get_expenses_all(user) ==
    /\ Served(Request("list", user, 0, NoJson), Response(200, ListBody(expenses)))
    /\ UNCHANGED <<expenses, deleted>>

get_expenses(user) ==
    /\ Served(Request("list", user, 0, NoJson),
              Response(200, ListBody(UserExpenses(user))))
    /\ UNCHANGED <<expenses, deleted>>

\* db.session.get in place of db.get_or_404: a missing row is a server error
get_expense_500(user, id) ==
    /\ Served(Request("get", user, id, NoJson),
              IF Rows(id) = {} THEN Response(500, AbortBody)
              ELSE IF Row(id).user_id # user THEN Response(401, ErrorBody(NoAccess))
              ELSE Response(200, Dump(Row(id))))
    /\ UNCHANGED <<expenses, deleted>>

get_expense(user, id) ==
    /\ Served(Request("get", user, id, NoJson),
              IF Rows(id) = {} THEN Response(404, AbortBody)
              ELSE IF Row(id).user_id # user THEN Response(401, ErrorBody(NoAccess))
              ELSE Response(200, Dump(Row(id))))
    /\ UNCHANGED <<expenses, deleted>>

\* the well-formed fields are assigned and committed before the payload is rejected
update_expense_eager(user, id, json) ==
    LET r == Request("update", user, id, json) IN
    IF Rows(id) = {}
    THEN /\ Served(r, Response(404, AbortBody))
         /\ UNCHANGED <<expenses, deleted>>
    ELSE IF Row(id).user_id # user
    THEN /\ Served(r, Response(401, ErrorBody(NoAccess)))
         /\ UNCHANGED <<expenses, deleted>>
    ELSE LET good == [f \in DOMAIN json \ LoadErrors(json, TRUE) |-> json[f]]
             expense == Assigned(Row(id), good)
         IN /\ expenses' = Committed(expense)
            /\ Served(r, IF LoadErrors(json, TRUE) # {}
                         THEN Response(422, MessagesBody(LoadErrors(json, TRUE)))
                         ELSE Response(200, Dump(expense)))
            /\ UNCHANGED deleted

\* the payload is validated before the row is looked up
update_expense_validate_first(user, id, json) ==
    LET r == Request("update", user, id, json) IN
    IF LoadErrors(json, TRUE) # {}
    THEN /\ Served(r, Response(422, MessagesBody(LoadErrors(json, TRUE))))
         /\ UNCHANGED <<expenses, deleted>>
    ELSE IF Rows(id) = {}
    THEN /\ Served(r, Response(404, AbortBody))
         /\ UNCHANGED <<expenses, deleted>>
    ELSE IF Row(id).user_id # user
    THEN /\ Served(r, Response(401, ErrorBody(NoAccess)))
         /\ UNCHANGED <<expenses, deleted>>
    ELSE LET expense == Assigned(Row(id), json)
         IN /\ expenses' = Committed(expense)
            /\ Served(r, Response(200, Dump(expense)))
            /\ UNCHANGED deleted

\* no owner check, and the row is given to the caller as in create
update_expense_takeover(user, id, json) ==
    LET r == Request("update", user, id, json) IN
    IF Rows(id) = {}
    THEN /\ Served(r, Response(404, AbortBody))
         /\ UNCHANGED <<expenses, deleted>>
    ELSE IF LoadErrors(json, TRUE) # {}
    THEN /\ Served(r, Response(422, MessagesBody(LoadErrors(json, TRUE))))
         /\ UNCHANGED <<expenses, deleted>>
    ELSE LET expense == [Assigned(Row(id), json) EXCEPT !.user_id = user]
         IN /\ expenses' = Committed(expense)
            /\ Served(r, Response(200, Dump(expense)))
            /\ UNCHANGED deleted

update_expense(user, id, json) ==
    LET r == Request("update", user, id, json) IN
    IF Rows(id) = {}
    THEN /\ Served(r, Response(404, AbortBody))
         /\ UNCHANGED <<expenses, deleted>>
    ELSE IF Row(id).user_id # user
    THEN /\ Served(r, Response(401, ErrorBody(NoAccess)))
         /\ UNCHANGED <<expenses, deleted>>
    ELSE IF LoadErrors(json, TRUE) # {}
    THEN /\ Served(r, Response(422, MessagesBody(LoadErrors(json, TRUE))))
         /\ UNCHANGED <<expenses, deleted>>
    ELSE LET expense == Assigned(Row(id), json)
         IN /\ expenses' = Committed(expense)
            /\ Served(r, Response(200, Dump(expense)))
            /\ UNCHANGED deleted

\* no owner check
delete_expense_any(user, id) ==
    LET r == Request("delete", user, id, NoJson) IN
    IF Rows(id) = {}
    THEN /\ Served(r, Response(404, AbortBody))
         /\ UNCHANGED <<expenses, deleted>>
    ELSE /\ expenses' = expenses \ {Row(id)}
         /\ deleted' = deleted \cup {id}
         /\ Served(r, Response(204, EmptyBody))

\* the delete is never committed
delete_expense_nocommit(user, id) ==
    LET r == Request("delete", user, id, NoJson) IN
    IF Rows(id) = {}
    THEN /\ Served(r, Response(404, AbortBody))
         /\ UNCHANGED <<expenses, deleted>>
    ELSE IF Row(id).user_id # user
    THEN /\ Served(r, Response(401, ErrorBody(NoAccess)))
         /\ UNCHANGED <<expenses, deleted>>
    ELSE /\ expenses' = expenses
         /\ deleted' = deleted \cup {id}
         /\ Served(r, Response(204, EmptyBody))

delete_expense(user, id) ==
    LET r == Request("delete", user, id, NoJson) IN
    IF Rows(id) = {}
    THEN /\ Served(r, Response(404, AbortBody))
         /\ UNCHANGED <<expenses, deleted>>
    ELSE IF Row(id).user_id # user
    THEN /\ Served(r, Response(401, ErrorBody(NoAccess)))
         /\ UNCHANGED <<expenses, deleted>>
    ELSE /\ expenses' = expenses \ {Row(id)}
         /\ deleted' = deleted \cup {id}
         /\ Served(r, Response(204, EmptyBody))

\* the response leaves; the next request can be taken
response_sent ==
    /\ req # NoRequest
    /\ req' = NoRequest
    /\ resp' = NoResponse
    /\ UNCHANGED <<expenses, deleted, sess, commits>>

\* ---------------------------------------------------------- specification
NoSessions == <<>>

Init ==
    /\ expenses = {}
    /\ req = NoRequest
    /\ resp = NoResponse
    /\ deleted = {}
    /\ sess = NoSessions
    /\ commits = <<>>

\* one request at a time: a handler starts when no response is pending
Next ==
    \/ req = NoRequest /\ \E user \in Users, json \in Payloads : create_expense(user, json)
    \/ req = NoRequest /\ \E user \in Users : get_expenses(user)
    \/ req = NoRequest /\ \E user \in Users, id \in Ids : get_expense(user, id)
    \/ req = NoRequest /\ \E user \in Users, id \in Ids, json \in Payloads :
                             update_expense(user, id, json)
    \/ req = NoRequest /\ \E user \in Users, id \in Ids : delete_expense(user, id)
    \/ response_sent

Spec == Init /\ [][Next]_vars

\* ------------------------------------------------- two interleaved PATCHes
PatchReqs == {1, 2}
NoRow == [id |-> 0, title |-> "", amount |-> 0, user_id |-> 0]

Session(user, id, json) ==
    [pc |-> "start", user |-> user, id |-> id, json |-> json,
     loaded |-> NoRow, expense |-> NoRow, status |-> 0]

Finished(r, status) ==
    sess' = [sess EXCEPT ![r].pc = "done", ![r].status = status]

\* lines 191-194: load the row into the request's session, check the owner
patch_read(r) ==
    /\ sess[r].pc = "start"
    /\ IF Rows(sess[r].id) = {} THEN Finished(r, 404)
       ELSE IF Row(sess[r].id).user_id # sess[r].user THEN Finished(r, 401)
       ELSE sess' = [sess EXCEPT ![r].pc = "loaded",
                                 ![r].loaded = Row(sess[r].id),
                                 ![r].expense = Row(sess[r].id)]
    /\ UNCHANGED <<expenses, req, resp, deleted, commits>>

\* lines 196-202: validate the payload, assign to the session's row
patch_assign(r) ==
    /\ sess[r].pc = "loaded"
    /\ IF LoadErrors(sess[r].json, TRUE) # {} THEN Finished(r, 422)
       ELSE sess' = [sess EXCEPT ![r].pc = "assigned",
                                 ![r].expense = Assigned(sess[r].expense, sess[r].json)]
    /\ UNCHANGED <<expenses, req, resp, deleted, commits>>

\* the session is never committed
patch_commit_nocommit(r) ==
    /\ sess[r].pc = "assigned"
    /\ expenses' = expenses
    /\ commits' = Append(commits, r)
    /\ Finished(r, 200)
    /\ UNCHANGED <<req, resp, deleted>>

\* lines 203-204: commit and answer
patch_commit(r) ==
    /\ sess[r].pc = "assigned"
    /\ expenses' \in Flushes(sess[r].expense, sess[r].loaded)
    /\ commits' = Append(commits, r)
    /\ Finished(r, 200)
    /\ UNCHANGED <<req, resp, deleted>>

InitPatch ==
    /\ \E id \in Ids, t \in Titles, a \in Amounts, owner \in Users :
          /\ expenses = {[id |-> id, title |-> t, amount |-> a, user_id |-> owner]}
          /\ sess \in [PatchReqs -> {Session(u, id, j) : u \in Users, j \in Payloads}]
    /\ req = NoRequest
    /\ resp = NoResponse
    /\ deleted = {}
    /\ commits = <<>>

NextPatch ==
    \/ \E r \in PatchReqs : patch_read(r)
    \/ \E r \in PatchReqs : patch_assign(r)
    \/ \E r \in PatchReqs : patch_commit(r)

SpecPatch == InitPatch /\ [][NextPatch]_vars

\* ------------------------------------------------------------ properties
ById == {"get", "update", "delete"}
IdsIn(rows) == {e.id : e \in rows}
Owned(r) == Rows(r.id) # {} /\ \A e \in Rows(r.id) : e.user_id = r.user
Foreign(r) == Rows(r.id) # {} /\ \A e \in Rows(r.id) : e.user_id # r.user

TypeOK ==
    /\ \A e \in expenses : e.id \in Ids /\ e.user_id \in Users
                           /\ e.title \in Titles /\ e.amount \in Amounts
    /\ deleted \subseteq Ids

\* C1: get, update and delete of an existing record by a caller who is not
\* its owner answer 401 with an error body that has none of the record's
\* fields, and leave the table as it was, whatever the payload.
NotOwnerRejected ==
    [][ (req'.op \in ById /\ Foreign(req'))
        => /\ resp'.status = 401
           /\ resp'.body.kind = "error"
           /\ DOMAIN resp'.body \cap {"id", "title", "amount"} = {}
           /\ expenses' = expenses ]_vars

NotOwnerWitness ==
    /\ req.op = "update" /\ DOMAIN req.json = Fields
    /\ LoadErrors(req.json, TRUE) = {}
    /\ Foreign(req)
    /\ resp.status = 401

\* C2: get, update and delete of an id that has no record answer 404 and
\* leave the table as it was.
MissingIsNotFound ==
    [][ (req'.op \in ById /\ Rows(req'.id) = {})
        => (resp'.status = 404 /\ expenses' = expenses) ]_vars

MissingWitness ==
    /\ req.op = "get" /\ resp.status = 404
    /\ req.id \notin deleted
    /\ expenses # {}

\* C3: create with a valid payload answers 201 with a record whose id no
\* existing record had and stores exactly that record, with the payload's
\* title and amount and the caller as owner; a get by the owner answers 200
\* with the id, title and amount of the stored record, so a get of the new
\* id by the same caller after the create returns the payload's values.
CreateThenGet ==
    [][ /\ (req'.op = "create" /\ LoadErrors(req'.json, FALSE) = {})
           => /\ resp'.status = 201
              /\ resp'.body.kind = "record"
              /\ resp'.body.id \notin IdsIn(expenses)
              /\ resp'.body.title = req'.json["title"]
              /\ resp'.body.amount = req'.json["amount"]
              /\ expenses' = expenses \cup
                    {[id |-> resp'.body.id, title |-> req'.json["title"],
                      amount |-> req'.json["amount"], user_id |-> req'.user]}
        /\ (req'.op = "get" /\ Owned(req'))
           => /\ resp'.status = 200
              /\ \E e \in expenses :
                   /\ e.id = req'.id /\ e.user_id = req'.user
                   /\ resp'.body = [kind |-> "record", id |-> e.id,
                                    title |-> e.title, amount |-> e.amount] ]_vars

CreateWitness ==
    /\ req.op = "create" /\ resp.status = 201
    /\ Cardinality(expenses) = 2
    /\ \E e \in expenses : e.id = resp.body.id /\ e.user_id = req.user

\* C4: a successful update changes only the fields present in the payload;
\* the record's id and owner and every other record are unchanged, and the
\* 200 response carries the record's values after the update.
UpdateFrame ==
    [][ (req'.op = "update" /\ resp'.status = 200)
        => /\ Owned(req')
           /\ \E old \in expenses, new \in expenses' :
                /\ old.id = req'.id /\ new.id = old.id
                /\ new.user_id = old.user_id
                /\ new.title = (IF "title" \in DOMAIN req'.json
                                THEN req'.json["title"] ELSE old.title)
                /\ new.amount = (IF "amount" \in DOMAIN req'.json
                                 THEN req'.json["amount"] ELSE old.amount)
                /\ expenses' \ {new} = expenses \ {old}
                /\ resp'.body = [kind |-> "record", id |-> new.id,
                                 title |-> new.title, amount |-> new.amount] ]_vars

UpdateWitness ==
    /\ req.op = "update" /\ resp.status = 200
    /\ DOMAIN req.json = {"title"}
    /\ Cardinality(expenses) = 2
    /\ \E e \in expenses : e.id = req.id /\ e.title = req.json["title"] /\ e.amount = 250

\* C5: list answers 200 with exactly the existing records owned by the
\* caller (an empty collection when there are none) and does not change
\* the table.
ListIsOwnerScoped ==
    [][ req'.op = "list"
        => /\ resp'.status = 200
           /\ resp'.body.kind = "list"
           /\ \A item \in resp'.body.items :
                \E e \in expenses : /\ e.user_id = req'.user
                                    /\ item.id = e.id
                                    /\ item.title = e.title
                                    /\ item.amount = e.amount
           /\ \A e \in expenses :
                e.user_id = req'.user => \E item \in resp'.body.items : item.id = e.id
           /\ expenses' = expenses ]_vars

ListWitness ==
    /\ req.op = "list" /\ resp.status = 200
    /\ resp.body.items = {}
    /\ expenses # {}
    /\ deleted # {}

\* C6: a request that ends in 422, 401 or 404 leaves the table exactly as
\* it was; the table changes only in a request that ends in success.
FailureLeavesStore ==
    [][ /\ resp'.status \in {422, 401, 404} => expenses' = expenses
        /\ expenses' # expenses => resp'.status \in {200, 201, 204} ]_vars

FailureWitness ==
    /\ req.op = "update" /\ resp.status = 422
    /\ DOMAIN req.json = Fields
    /\ LoadErrors(req.json, TRUE) = {"amount"}
    /\ \E e \in expenses : e.id = req.id /\ e.title # req.json["title"]

\* C7: a delete by the owner answers 204 with an empty body and removes
\* exactly that record; from then on get, update and delete of that id
\* answer 404 until a create assigns the id again.
DeleteThenNotFound ==
    [][ /\ (req'.op = "delete" /\ Owned(req'))
           => /\ resp'.status = 204
              /\ resp'.body = [kind |-> "empty"]
              /\ expenses' = {e \in expenses : e.id # req'.id}
              /\ req'.id \in deleted'
        /\ (req'.op \in ById /\ req'.id \in deleted) => resp'.status = 404
        /\ \A id \in deleted \ deleted' :
              req'.op = "create" /\ resp'.status = 201 /\ resp'.body.id = id ]_vars

DeleteWitness ==
    /\ req.op = "delete" /\ resp.status = 404
    /\ req.id \in deleted
    /\ expenses # {}

\* C8: every existing record has exactly one owner; a record's id and owner
\* never change; records appear only by create, change title or amount only
\* by update, and disappear only by delete.
RecordLifecycle ==
    [][ /\ \A e \in expenses' :
              /\ Cardinality({x \in expenses' : x.id = e.id}) = 1
              /\ e.user_id \in Users
        /\ \A e \in expenses :
              \/ /\ e.id \notin IdsIn(expenses')
                 /\ req'.op = "delete" /\ req'.id = e.id /\ resp'.status = 204
              \/ \E n \in expenses' :
                   /\ n.id = e.id /\ n.user_id = e.user_id
                   /\ (n # e => req'.op = "update" /\ req'.id = e.id
                                /\ resp'.status = 200)
        /\ \A n \in expenses' :
              n.id \notin IdsIn(expenses)
              => /\ req'.op = "create" /\ resp'.status = 201
                 /\ n.user_id = req'.user /\ resp'.body.id = n.id ]_vars

LifecycleWitness ==
    /\ req.op = "update" /\ resp.status = 200 /\ req.user = 2
    /\ \E e \in expenses : e.id = req.id /\ e.user_id = 2
    /\ \E e \in expenses : e.id # req.id /\ e.user_id = 1

\* C9: update checks existence, then ownership, then the payload: with an
\* invalid payload it answers 404 for a missing id, 401 for another user's
\* record, and 422 only for an existing record the caller owns.
UpdateCheckOrder ==
    [][ /\ (req'.op = "update" /\ LoadErrors(req'.json, TRUE) # {})
           => resp'.status = (IF Rows(req'.id) = {} THEN 404
                              ELSE IF Foreign(req') THEN 401 ELSE 422)
        /\ (req'.op = "update" /\ resp'.status = 422) => Owned(req') ]_vars

CheckOrderWitness ==
    /\ req.op = "update" /\ resp.status = 401
    /\ LoadErrors(req.json, TRUE) # {}
    /\ Foreign(req)

\* C10 as stated: two interleaved updates by the owner both run to
\* completion with 200, and once both have committed each stored field
\* holds the value assigned by the request that committed last.
BothCommitted == \A r \in PatchReqs : sess[r].pc = "done" /\ sess[r].status = 200

NeverStuckNorFailed ==
    \A r \in PatchReqs :
       /\ sess[r].pc # "done"
          => ENABLED (patch_read(r) \/ patch_assign(r) \/ patch_commit(r))
       /\ (sess[r].pc = "done" /\ Owned(sess[r]) /\ LoadErrors(sess[r].json, TRUE) = {})
          => sess[r].status = 200

====
